---- MODULE Spec2Model ----
(***************************************************************************)
(* Model of dbj_main.py: the session-startup orchestrator for Hyprland.    *)
(* One run of the script is one behaviour: the import guard, main,         *)
(* load_config, orchestrate (prewarm, then launch / wait / place for each  *)
(* rule) and the exit.  The windowing system (hyprctl), the process        *)
(* launcher and the clock are the environment: every command handed to     *)
(* them is appended to `effects`, every snapshot returned by               *)
(* `hyprctl -j clients` is chosen freely from Snapshots, and the clock     *)
(* advances by the poll interval on each sleep.                            *)
(*                                                                         *)
(* Python's None is the empty tuple and a present value v is <<v>>.        *)
(* Strings that are matched by a regular expression are tuples of          *)
(* characters.  Times are in milliseconds.                                 *)
(***************************************************************************)
EXTENDS Integers, Sequences, FiniteSets, TLC

VARIABLES pc, fs, hasTomllib, dryRun, cfg, i, timeout, t0, now, snap, addr,
          effects, exitStatus

vars == <<pc, fs, hasTomllib, dryRun, cfg, i, timeout, t0, now, snap, addr,
          effects, exitStatus>>

(***************************************************************************)
(* Bounds of the model.                                                    *)
(***************************************************************************)
MaxRules == 2
MaxWindows == 2
MaxTimeoutS == 1
MaxFetches == 2

(***************************************************************************)
(* Python values.                                                          *)
(***************************************************************************)
None == <<>>

Some(v) == <<v>>

\* truth value of an Optional[int]: None and 0 are falsy
TruthyInt(o) == o # None /\ o[1] # 0

\* truth value of an Optional[str]: None and "" are falsy
TruthyStr(o) == o # None /\ o[1] # ""

MsPerSecond == 1000

DefaultPollIntervalMs == 200

DefaultTimeoutS == 20

ExitOk == 0

ExitNoTomllib == 1

ExitUncaught == 1

\* the missing-config exit reusing the status of the import guard
ExitNoConfigSlip == ExitNoTomllib

ExitNoConfig == 2

(***************************************************************************)
(* Regular expressions, restricted to the shapes the configurations below  *)
(* use: literal characters, an optional leading ^, an optional trailing $, *)
(* and an unclosed "(" which re.compile rejects.                           *)
(***************************************************************************)
Malformed(class_regex) ==
    Cardinality({k \in 1..Len(class_regex) : class_regex[k] = "("})
        # Cardinality({k \in 1..Len(class_regex) : class_regex[k] = ")"})

PatSearch(class_regex, s) ==
    LET n      == Len(class_regex)
        atBeg  == n > 0 /\ class_regex[1] = "^"
        atEnd  == n > 0 /\ class_regex[n] = "$"
        body   == SubSeq(class_regex, IF atBeg THEN 2 ELSE 1,
                                      IF atEnd THEN n - 1 ELSE n)
    IN  \E k \in 0..(Len(s) - Len(body)) :
            /\ SubSeq(s, k + 1, k + Len(body)) = body
            /\ atBeg => k = 0
            /\ atEnd => k + Len(body) = Len(s)

\* c.get("class", "") or ""
ClassOf(c) == IF c.class = None THEN <<>> ELSE c.class[1]

\* the for loop of wait_for_window over one snapshot, from window k on
RECURSIVE ScanFrom(_, _, _)
ScanFrom(class_regex, clients, k) ==
    IF k > Len(clients)
    THEN [found |-> FALSE, address |-> None]
    ELSE IF PatSearch(class_regex, ClassOf(clients[k]))
         THEN [found |-> TRUE, address |-> clients[k].address]
         ELSE ScanFrom(class_regex, clients, k + 1)

\* Scan that goes on after a match and returns the last matching window
RECURSIVE ScanLastFrom(_, _, _)
ScanLastFrom(class_regex, clients, k) ==
    IF k < 1
    THEN [found |-> FALSE, address |-> None]
    ELSE IF PatSearch(class_regex, ClassOf(clients[k]))
         THEN [found |-> TRUE, address |-> clients[k].address]
         ELSE ScanLastFrom(class_regex, clients, k - 1)

ScanLast(class_regex, clients) ==
    ScanLastFrom(class_regex, clients, Len(clients))

Scan(class_regex, clients) == ScanFrom(class_regex, clients, 1)

\* BeforeDeadline with the deadline itself still inside the wait
BeforeDeadlineInclusive(clock, start, timeout_s) ==
    clock - start <= timeout_s * MsPerSecond

\* while time.time() - t0 < timeout_s
BeforeDeadline(clock, start, timeout_s) ==
    clock - start < timeout_s * MsPerSecond

(***************************************************************************)
(* Configurations.                                                         *)
(***************************************************************************)
xt == <<"x", "t">>

txt == <<"t", "x", "t">>

AppRule(name, cmd, class_regex, workspace, monitor, timeout_s) ==
    [name |-> name, cmd |-> cmd, class_regex |-> class_regex,
     workspace |-> workspace, monitor |-> monitor, timeout_s |-> timeout_s]

AppChoices ==
    { AppRule("term", "xterm", <<"^", "x", "t", "$">>, 2, None, None),
      AppRule("web", "firefox", xt, 4, Some("DP-1"), Some(MaxTimeoutS)),
      AppRule("zero", "kitty", xt, 6, None, Some(0)),
      AppRule("neg", "foot", <<"t">>, 7, Some("DP-1"), Some(-1)),
      AppRule("bad", "gimp", <<"(", "x">>, 8, None, None) }

RECURSIVE SeqsUpTo(_, _)
SeqsUpTo(S, n) ==
    IF n = 0 THEN {<<>>}
    ELSE LET shorter == SeqsUpTo(S, n - 1)
         IN  shorter \cup {Append(s, x) : s \in shorter, x \in S}

\* the [general] table of the file; an absent key is None
GeneralChoices ==
    [prewarm_workspaces : {None, Some(<<3, 5>>)},
     poll_interval_ms   : {None, Some(-1), Some(0), Some(1500)},
     default_timeout_s  : {Some(t) : t \in 0..MaxTimeoutS}]

\* the parsed TOML documents the configuration file may hold
FileChoices ==
    [general : GeneralChoices, app : SeqsUpTo(AppChoices, MaxRules)]

NoFile == [general |-> None, app |-> None]

\* general.get(key, default)
Get(o, default) == IF o = None THEN default ELSE o[1]

load_config(data) ==
    [general |->
        [prewarm_workspaces |-> Get(data.general.prewarm_workspaces, <<>>),
         poll_interval_ms   |-> Get(data.general.poll_interval_ms,
                                    DefaultPollIntervalMs),
         default_timeout_s  |-> Get(data.general.default_timeout_s,
                                    DefaultTimeoutS)],
     apps |-> data.app]

NoConfig == [general |-> None, apps |-> <<>>]

(***************************************************************************)
(* The windows hyprctl may report.                                         *)
(***************************************************************************)
WindowChoices ==
    { [address |-> Some("0x1"), class |-> Some(xt)],
      [address |-> Some("0x2"), class |-> Some(txt)],
      [address |-> None,        class |-> Some(xt)],
      [address |-> Some(""),    class |-> Some(txt)],
      [address |-> Some("0x3"), class |-> None] }

Snapshots == SeqsUpTo(WindowChoices, MaxWindows)

(***************************************************************************)
(* Effects: what the run hands to the outside world, in order.  `rule` is  *)
(* the position in cfg.apps of the rule the effect was produced for (0 for *)
(* none).  A "clients" effect is one call of hypr_clients; its argument    *)
(* records whether the snapshot the windowing system returned held a       *)
(* window whose class the rule's pattern matches.                          *)
(***************************************************************************)
Effect(op, rule, arg) == [op |-> op, rule |-> rule, arg |-> arg]

Shows(class_regex, clients) ==
    \E k \in 1..Len(clients) : PatSearch(class_regex, ClassOf(clients[k]))

\* prewarm_workspaces with one command for each workspace instead of a batch
prewarm_workspaces_unbatched(ws_list) ==
    [k \in 1..Len(ws_list) |->
        Effect("batch", 0, <<"workspace", ws_list[k]>>)]

\* run("hyprctl --batch '...'") of prewarm_workspaces
prewarm_workspaces(ws_list) ==
    IF ws_list = <<>>
    THEN <<>>
    ELSE << Effect("batch", 0,
                   [k \in 1..Len(ws_list) |-> <<"workspace", ws_list[k]>>]) >>

move_to_workspace(r, a, ws) ==
    << Effect("movetoworkspace", r, <<ws, a>>) >>

\* move_to_monitor with the two dispatches in the other order
move_to_monitor_then_focus(r, a, monitor) ==
    << Effect("movetomonitor", r, <<monitor, a>>),
       Effect("focuswindow", r, <<a>>) >>

move_to_monitor(r, a, monitor) ==
    << Effect("focuswindow", r, <<a>>),
       Effect("movetomonitor", r, <<monitor, a>>) >>

\* the calls of hypr_clients made for rule r so far
Fetches(r) ==
    Cardinality({k \in 1..Len(effects) :
                   effects[k].op = "clients" /\ effects[k].rule = r})

\* rule.timeout_s or cfg.general.default_timeout_s
EffectiveTimeout(rule, general) ==
    IF TruthyInt(rule.timeout_s) THEN rule.timeout_s[1]
                                 ELSE general.default_timeout_s

\* LaunchEffects with the next rule's command spawned ahead of its turn
LaunchEffectsAhead(r, dry) ==
    LET rule == cfg.apps[r]
    IN  << Effect("stdout", r, <<"launching", rule.name, rule.workspace,
                                 rule.monitor>>) >>
        \o (IF ~dry THEN <<Effect("spawn", r, rule.cmd)>> ELSE <<>>)
        \o (IF ~dry /\ r < Len(cfg.apps)
            THEN <<Effect("spawn", r + 1, cfg.apps[r + 1].cmd)>> ELSE <<>>)

\* LaunchEffects with the dry-run test inverted: the spawn only in a dry run
LaunchEffectsInverted(r, dry) ==
    LET rule == cfg.apps[r]
    IN  << Effect("stdout", r, <<"launching", rule.name, rule.workspace,
                                 rule.monitor>>) >>
        \o (IF dry THEN <<Effect("spawn", r, rule.cmd)>> ELSE <<>>)

\* LaunchEffects with the command spawned a second time
LaunchEffectsTwice(r, dry) ==
    LET rule == cfg.apps[r]
    IN  << Effect("stdout", r, <<"launching", rule.name, rule.workspace,
                                 rule.monitor>>) >>
        \o (IF ~dry THEN << Effect("spawn", r, rule.cmd),
                            Effect("spawn", r, rule.cmd) >>
                    ELSE <<>>)

\* orchestrate, lines 100-102: the log line and the spawn of rule r
LaunchEffects(r, dry) ==
    LET rule == cfg.apps[r]
    IN  << Effect("stdout", r, <<"launching", rule.name, rule.workspace,
                                 rule.monitor>>) >>
        \o (IF ~dry THEN <<Effect("spawn", r, rule.cmd)>> ELSE <<>>)

\* orchestrate, lines 106-114: the warning, or the log line and the placement
PlaceEffects(r, a, dry) ==
    LET rule == cfg.apps[r]
    IN  IF ~TruthyStr(a)
        THEN <<Effect("warn", r, <<rule.name, rule.class_regex>>)>>
        ELSE <<Effect("stdout", r, <<"found", a[1], rule.name,
                                     rule.workspace>>)>>
             \o (IF ~dry
                 THEN move_to_workspace(r, a[1], rule.workspace)
                      \o (IF TruthyStr(rule.monitor)
                          THEN move_to_monitor(r, a[1], rule.monitor[1])
                          ELSE <<>>)
                 ELSE <<>>)

\* AfterSleep with the interval divided by 10000 instead of 1000
AfterSleepTenth(clock, poll_ms) == clock + poll_ms \div 10

\* AfterSleep with the interval doubled
AfterSleepTwice(clock, poll_ms) == clock + 2 * poll_ms

\* the clock after time.sleep(poll_ms / 1000.0)
AfterSleep(clock, poll_ms) == clock + poll_ms

(***************************************************************************)
(* The run.                                                                *)
(***************************************************************************)
Init ==
    /\ pc = "import"
    /\ hasTomllib \in BOOLEAN
    /\ fs \in {NoFile} \cup FileChoices
    /\ dryRun \in BOOLEAN
    /\ cfg = NoConfig
    /\ i = 0
    /\ timeout = 0
    /\ t0 = 0
    /\ now = 0
    /\ snap = <<>>
    /\ addr = None
    /\ effects = <<>>
    /\ exitStatus = None

\* the try/except around `import tomllib`
ImportGuard ==
    /\ pc = "import"
    /\ IF hasTomllib
       THEN /\ pc' = "main"
            /\ UNCHANGED <<effects, exitStatus>>
       ELSE /\ pc' = "exited"
            /\ effects' = Append(effects, Effect("stderr", 0, <<"no tomllib">>))
            /\ exitStatus' = Some(ExitNoTomllib)
    /\ UNCHANGED <<fs, hasTomllib, dryRun, cfg, i, timeout, t0, now, snap, addr>>

\* main up to the call of orchestrate
Main ==
    /\ pc = "main"
    /\ IF fs = NoFile
       THEN /\ pc' = "exited"
            /\ effects' = Append(effects, Effect("stderr", 0, <<"no config">>))
            /\ exitStatus' = Some(ExitNoConfig)
            /\ cfg' = cfg
       ELSE /\ pc' = "orchestrate"
            /\ cfg' = load_config(fs)
            /\ UNCHANGED <<effects, exitStatus>>
    /\ UNCHANGED <<fs, hasTomllib, dryRun, i, timeout, t0, now, snap, addr>>

\* orchestrate, line 97
Prewarm ==
    /\ pc = "orchestrate"
    /\ effects' = effects \o prewarm_workspaces(cfg.general.prewarm_workspaces)
    /\ i' = 1
    /\ pc' = "rule"
    /\ UNCHANGED <<fs, hasTomllib, dryRun, cfg, timeout, t0, now, snap, addr,
                   exitStatus>>

\* Launch with the pattern error caught and turned into "no window"
LaunchSwallowsError ==
    /\ pc = "rule"
    /\ i <= Len(cfg.apps)
    /\ effects' = effects \o LaunchEffects(i, dryRun)
    /\ timeout' = EffectiveTimeout(cfg.apps[i], cfg.general)
    /\ IF Malformed(cfg.apps[i].class_regex)
       THEN /\ pc' = "result"
            /\ addr' = None
            /\ t0' = t0
       ELSE /\ pc' = "poll"
            /\ addr' = addr
            /\ t0' = now
    /\ UNCHANGED <<fs, hasTomllib, dryRun, cfg, i, now, snap, exitStatus>>

\* Launch with the start of the wait taken once, on the first call, and kept
LaunchKeepsStart ==
    /\ pc = "rule"
    /\ i <= Len(cfg.apps)
    /\ effects' = effects \o LaunchEffects(i, dryRun)
    /\ timeout' = EffectiveTimeout(cfg.apps[i], cfg.general)
    /\ IF Malformed(cfg.apps[i].class_regex)
       THEN /\ pc' = "crashed"
            /\ exitStatus' = Some(ExitUncaught)
            /\ t0' = t0
       ELSE /\ pc' = "poll"
            /\ t0' = IF i = 1 THEN now ELSE t0
            /\ exitStatus' = exitStatus
    /\ UNCHANGED <<fs, hasTomllib, dryRun, cfg, i, now, snap, addr>>

\* one iteration of the for loop up to the while loop of wait_for_window;
\* re.compile raises re.error on a malformed pattern and nothing catches it
Launch ==
    /\ pc = "rule"
    /\ i <= Len(cfg.apps)
    /\ effects' = effects \o LaunchEffects(i, dryRun)
    /\ timeout' = EffectiveTimeout(cfg.apps[i], cfg.general)
    /\ IF Malformed(cfg.apps[i].class_regex)
       THEN /\ pc' = "crashed"
            /\ exitStatus' = Some(ExitUncaught)
            /\ t0' = t0
       ELSE /\ pc' = "poll"
            /\ t0' = now
            /\ exitStatus' = exitStatus
    /\ UNCHANGED <<fs, hasTomllib, dryRun, cfg, i, now, snap, addr>>

\* one iteration of the while loop: fetch, scan, return or sleep;
\* time.sleep raises ValueError on a negative length and nothing catches it.
\* With a poll interval of 0 the loop never ends by itself: the model
\* follows it for MaxFetches iterations.
Poll ==
    /\ pc = "poll"
    /\ BeforeDeadline(now, t0, timeout)
    /\ cfg.general.poll_interval_ms = 0 => Fetches(i) < MaxFetches
    /\ \E clients \in Snapshots :
         LET res   == Scan(cfg.apps[i].class_regex, clients)
             fetch == Effect("clients", i,
                             Shows(cfg.apps[i].class_regex, clients))
         IN  /\ snap' = clients
             /\ IF res.found
                THEN /\ effects' = Append(effects, fetch)
                     /\ addr' = res.address
                     /\ pc' = "result"
                     /\ UNCHANGED <<now, exitStatus>>
                ELSE IF cfg.general.poll_interval_ms < 0
                THEN /\ effects' = Append(effects, fetch)
                     /\ pc' = "crashed"
                     /\ exitStatus' = Some(ExitUncaught)
                     /\ UNCHANGED <<now, addr>>
                ELSE /\ effects' = effects \o
                                   << fetch,
                                      Effect("sleep", i,
                                             cfg.general.poll_interval_ms) >>
                     /\ now' = AfterSleep(now, cfg.general.poll_interval_ms)
                     /\ pc' = "poll"
                     /\ UNCHANGED <<addr, exitStatus>>
    /\ UNCHANGED <<fs, hasTomllib, dryRun, cfg, i, timeout, t0>>

\* the while condition fails: return None
Deadline ==
    /\ pc = "poll"
    /\ ~BeforeDeadline(now, t0, timeout)
    /\ addr' = None
    /\ pc' = "result"
    /\ UNCHANGED <<fs, hasTomllib, dryRun, cfg, i, timeout, t0, now, snap,
                   effects, exitStatus>>

\* orchestrate, lines 106-114, and the step to the next rule
Place ==
    /\ pc = "result"
    /\ effects' = effects \o PlaceEffects(i, addr, dryRun)
    /\ i' = i + 1
    /\ pc' = "rule"
    /\ UNCHANGED <<fs, hasTomllib, dryRun, cfg, timeout, t0, now, snap, addr,
                   exitStatus>>

\* return 0 and sys.exit(rc)
Return ==
    /\ pc = "rule"
    /\ i > Len(cfg.apps)
    /\ exitStatus' = Some(ExitOk)
    /\ pc' = "exited"
    /\ UNCHANGED <<fs, hasTomllib, dryRun, cfg, i, timeout, t0, now, snap, addr,
                   effects>>

Next ==
    \/ ImportGuard
    \/ Main
    \/ Prewarm
    \/ Launch
    \/ Poll
    \/ Deadline
    \/ Place
    \/ Return

Spec == Init /\ [][Next]_vars

\* the script is one sequential process that keeps running until it exits:
\* whenever it has a next step, it takes it
FairSpec == Spec /\ WF_vars(Next)

(***************************************************************************)
(* Vocabulary of the properties.                                           *)
(***************************************************************************)
PlacementOps == {"movetoworkspace", "focuswindow", "movetomonitor"}

CommandOps == {"batch", "spawn", "clients"} \cup PlacementOps

\* the positions in effects of rule r's effects with an operation in ops
At(r, ops) ==
    {k \in 1..Len(effects) : effects[k].rule = r /\ effects[k].op \in ops}

\* the effect that resolves a rule's wait for the reader of the output:
\* the timeout warning or the "found window" line
Resolves(e) ==
    \/ e.op = "warn"
    \/ e.op = "stdout" /\ e.arg[1] = "found"

\* orchestrate has been entered
Orchestrating == pc \notin {"import", "main"} /\ cfg # NoConfig

(***************************************************************************)
(* C1: in dry-run mode no launch (spawn), no window-snapshot fetch and no  *)
(* placement command is ever issued.                                       *)
(***************************************************************************)
C1_DryRunIssuesNoLaunchPollOrPlacement ==
    dryRun =>
        \A k \in 1..Len(effects) :
            effects[k].op \notin {"spawn", "clients"} \cup PlacementOps

(***************************************************************************)
(* C2: rules are processed in the declared order and strictly one after    *)
(* the other: the effects of rule r+1 all come after every effect of rule  *)
(* r, and only after rule r's wait has resolved; within a rule the spawn   *)
(* precedes the fetches and the fetches precede the placement; each spawn  *)
(* runs the command of the rule declared at that position.                 *)
(***************************************************************************)
C2_RulesInDeclaredOrderSequential ==
    /\ \A a, b \in 1..Len(effects) :
          a < b =>
            /\ effects[a].rule <= effects[b].rule
            /\ effects[a].rule = effects[b].rule =>
                 /\ ~(effects[a].op \in PlacementOps
                      /\ effects[b].op \in {"spawn", "clients"})
                 /\ ~(effects[a].op = "clients" /\ effects[b].op = "spawn")
    /\ \A b \in 1..Len(effects) :
          /\ effects[b].rule >= 2 =>
               \E a \in 1..(b - 1) :
                  /\ effects[a].rule = effects[b].rule - 1
                  /\ Resolves(effects[a])
          /\ effects[b].op = "spawn" =>
               effects[b].arg = cfg.apps[effects[b].rule].cmd

C2_Witness ==
    \E a, b \in 1..Len(effects) :
        /\ a < b
        /\ effects[a].op = "movetoworkspace" /\ effects[a].rule = 1
        /\ effects[b].op = "movetoworkspace" /\ effects[b].rule = 2

(***************************************************************************)
(* C3: the timeout handed to the wait is the rule's timeout_s whenever the *)
(* rule declares one, whatever its value, and default_timeout_s otherwise. *)
(***************************************************************************)
C3_TimeoutIsOverrideWhenPresent ==
    pc \in {"poll", "result"} =>
        timeout = IF cfg.apps[i].timeout_s # None
                  THEN cfg.apps[i].timeout_s[1]
                  ELSE cfg.general.default_timeout_s

(***************************************************************************)
(* C4: a wait with a timeout t <= 0 returns NotFound (None) without any    *)
(* sleep and after at most one snapshot fetch, whatever the windowing      *)
(* system would have shown.                                                *)
(***************************************************************************)
C4_NonPositiveTimeoutReturnsAtOnce ==
    (pc \in {"poll", "result"} /\ timeout <= 0) =>
        /\ Cardinality(At(i, {"clients"})) <= 1
        /\ At(i, {"sleep"}) = {}
        /\ now = t0
        /\ pc = "result" => addr = None

C4_Witness ==
    /\ pc = "result"
    /\ timeout = 0
    /\ i = 2
    /\ addr = None

(***************************************************************************)
(* C5: a snapshot that shows a matching window ends the wait in that very  *)
(* poll: the wait is never still polling after such a snapshot, and when   *)
(* it returns from one, that snapshot is the last effect of the rule, the  *)
(* address returned is that of the first matching window in snapshot       *)
(* order, every earlier snapshot showed no match, and the wait made one    *)
(* fetch more than it slept (k + 1 fetches, k sleeps).                     *)
(***************************************************************************)
C5_ReturnsOnFirstPollThatShowsAMatch ==
    /\ pc = "poll" =>
          \A k \in At(i, {"clients"}) : ~effects[k].arg
    /\ (pc = "result" /\ \E k \in At(i, {"clients"}) : effects[k].arg) =>
          /\ effects[Len(effects)].op = "clients"
          /\ effects[Len(effects)].rule = i
          /\ \A k \in At(i, {"clients"}) : effects[k].arg <=> k = Len(effects)
          /\ \E j \in 1..Len(snap) :
                /\ PatSearch(cfg.apps[i].class_regex, ClassOf(snap[j]))
                /\ \A h \in 1..(j - 1) :
                      ~PatSearch(cfg.apps[i].class_regex, ClassOf(snap[h]))
                /\ addr = snap[j].address
          /\ Cardinality(At(i, {"clients"}))
                = Cardinality(At(i, {"sleep"})) + 1

\* no match on three polls, then two matching windows: four fetches, three
\* sleeps, the first window's address
C5_Witness ==
    /\ pc = "result"
    /\ Cardinality(At(i, {"clients"})) = 4
    /\ Cardinality(At(i, {"sleep"})) = 3
    /\ Len(snap) = 2
    /\ snap[1].address = Some("0x1")
    /\ snap[2].address = Some("0x2")
    /\ cfg.apps[i].class_regex = xt
    /\ addr = Some("0x1")

C7_NoRuleFailureAbortsTheRun ==
    (cfg # NoConfig /\ pc \in {"exited", "crashed"}) =>
        /\ exitStatus = Some(ExitOk)
        /\ \A r \in 1..Len(cfg.apps) :
              \E k \in 1..Len(effects) :
                 effects[k].rule = r /\ Resolves(effects[k])

(***************************************************************************)
(* C8: a configuration with poll_interval_ms <= 0 is rejected before any   *)
(* action: no prewarm, spawn, snapshot fetch or placement command is       *)
(* issued for it.                                                          *)
(***************************************************************************)
C8_NonPositivePollIntervalIsRejected ==
    (cfg # NoConfig /\ cfg.general.poll_interval_ms <= 0) =>
        \A k \in 1..Len(effects) : effects[k].op \notin CommandOps

(***************************************************************************)
(* C9: when the configuration path does not exist, main issues no command  *)
(* and writes nothing but its error line, and exits with status 2, which   *)
(* is neither the status of a completed run nor that of the import guard.  *)
(***************************************************************************)
C9_MissingConfigExitsTwoWithoutCommands ==
    (hasTomllib /\ fs = NoFile) =>
        /\ \A k \in 1..Len(effects) : effects[k].op = "stderr"
        /\ pc \in {"import", "main", "exited"}
        /\ pc = "exited" =>
              /\ exitStatus = Some(2)
              /\ exitStatus \notin {Some(ExitOk), Some(ExitNoTomllib)}

C9_Witness ==
    /\ hasTomllib
    /\ fs = NoFile
    /\ pc = "exited"
    /\ exitStatus = Some(2)
    /\ Len(effects) = 1

(***************************************************************************)
(* C10: in a non-dry run, a rule with timeout T > 0 whose wait is never    *)
(* shown a matching window, polled every p > 0 milliseconds, makes at most *)
(* ceil(T / p) snapshot fetches, gets no placement command and, once       *)
(* processed, exactly one warning, which names the rule and its pattern;   *)
(* the run then still exits with status 0.                                 *)
(***************************************************************************)
C10_TimeoutBoundsFetchesAndWarnsOnce ==
    cfg # NoConfig =>
      /\ \A r \in 1..Len(cfg.apps) :
            LET T == EffectiveTimeout(cfg.apps[r], cfg.general) * MsPerSecond
                p == cfg.general.poll_interval_ms
            IN  (/\ ~dryRun
                 /\ T > 0
                 /\ p > 0
                 /\ \A k \in At(r, {"clients"}) : ~effects[k].arg) =>
                    /\ Cardinality(At(r, {"clients"})) <= (T + p - 1) \div p
                    /\ At(r, PlacementOps) = {}
                    /\ Cardinality(At(r, {"warn"})) = IF r < i THEN 1 ELSE 0
                    /\ \A k \in At(r, {"warn"}) :
                          effects[k].arg = <<cfg.apps[r].name,
                                             cfg.apps[r].class_regex>>
      /\ pc = "exited" => exitStatus = Some(ExitOk)

\* one second at the default 200 ms: five fetches, the warning, exit 0
C10_Witness ==
    /\ ~dryRun
    /\ pc = "exited"
    /\ exitStatus = Some(ExitOk)
    /\ Len(cfg.apps) = 1
    /\ cfg.apps[1].name = "term"
    /\ cfg.general.poll_interval_ms = DefaultPollIntervalMs
    /\ Cardinality(At(1, {"clients"})) = 5
    /\ Cardinality(At(1, {"warn"})) = 1
    /\ At(1, PlacementOps) = {}

(***************************************************************************)
(* Vocabulary of the later properties.                                     *)
(***************************************************************************)
\* the wait of rule r has returned
WaitReturned(r) == r < i \/ (r = i /\ pc = "result")

\* no snapshot fetched for rule r so far showed a matching window
NoMatchShown(r) == \A k \in At(r, {"clients"}) : ~effects[k].arg

\* the time rule r's wait has slept, in milliseconds
Slept(r) == Cardinality(At(r, {"sleep"})) * cfg.general.poll_interval_ms

\* the timeout of rule r's wait, in milliseconds
TimeoutMs(r) == EffectiveTimeout(cfg.apps[r], cfg.general) * MsPerSecond

(***************************************************************************)
(* C11: a wait with timeout T > 0 and poll interval p > 0 that is never    *)
(* shown a matching window returns NotFound after a time within one poll   *)
(* interval of T, in [T - p, T + p]; a second wait with the same pattern,  *)
(* timeout and interval does the same, in the same time and with the same  *)
(* number of fetches: the first call leaves nothing behind.                *)
(***************************************************************************)
C11_RepeatedEmptyWaitsAgree ==
    (cfg # NoConfig /\ cfg.general.poll_interval_ms > 0) =>
      /\ \A r \in 1..Len(cfg.apps) :
            (TimeoutMs(r) > 0 /\ WaitReturned(r) /\ NoMatchShown(r)) =>
               /\ Slept(r) >= TimeoutMs(r) - cfg.general.poll_interval_ms
               /\ Slept(r) <= TimeoutMs(r) + cfg.general.poll_interval_ms
               /\ r = i => (addr = None /\ now - t0 = Slept(r))
               /\ r < i => Cardinality(At(r, {"warn"})) = 1
      /\ \A q, r \in 1..Len(cfg.apps) :
            (/\ cfg.apps[q].class_regex = cfg.apps[r].class_regex
             /\ TimeoutMs(q) = TimeoutMs(r)
             /\ TimeoutMs(r) > 0
             /\ WaitReturned(q) /\ NoMatchShown(q)
             /\ WaitReturned(r) /\ NoMatchShown(r)) =>
               /\ Slept(q) = Slept(r)
               /\ Cardinality(At(q, {"clients"}))
                     = Cardinality(At(r, {"clients"}))

\* the same rule twice, an empty window list, five polls each
C11_Witness ==
    /\ pc = "result"
    /\ i = 2
    /\ cfg.apps[1] = cfg.apps[2]
    /\ cfg.general.poll_interval_ms = DefaultPollIntervalMs
    /\ NoMatchShown(1)
    /\ NoMatchShown(2)
    /\ snap = <<>>
    /\ addr = None
    /\ Slept(1) = 1000
    /\ now - t0 = 1000

(***************************************************************************)
(* C12: each rule follows Pending -> Launched -> {Placed, TimedOut} and    *)
(* makes no other transition.  The state of a rule is read off the         *)
(* effects: Launched once its command is spawned, Placed once its          *)
(* move-to-workspace command is issued, TimedOut once its warning is       *)
(* written.  In a non-dry run a rule is Placed or TimedOut only after its  *)
(* spawn, never both, every rule whose iteration is complete is exactly    *)
(* one of the two, and in every step a rule keeps its state or moves       *)
(* along one arrow of the machine; a terminal rule keeps its state.        *)
(***************************************************************************)
RuleState(r) ==
    IF At(r, {"movetoworkspace"}) # {} THEN "Placed"
    ELSE IF At(r, {"warn"}) # {} THEN "TimedOut"
    ELSE IF At(r, {"spawn"}) # {} THEN "Launched"
    ELSE "Pending"

C12_StateInvariant ==
    (cfg # NoConfig /\ ~dryRun) =>
        \A r \in 1..Len(cfg.apps) :
            /\ Cardinality(At(r, {"movetoworkspace"}))
                  + Cardinality(At(r, {"warn"})) <= 1
            /\ \A k \in At(r, {"movetoworkspace", "warn"}) :
                  \E h \in At(r, {"spawn"}) : h < k
            /\ r < i => RuleState(r) \in {"Placed", "TimedOut"}
            /\ r > i => RuleState(r) = "Pending"

C12_StateStep ==
    (cfg # NoConfig /\ ~dryRun) =>
        \A r \in 1..Len(cfg.apps) :
            \/ RuleState(r)' = RuleState(r)
            \/ RuleState(r) = "Pending" /\ RuleState(r)' = "Launched"
            \/ RuleState(r) = "Launched"
                  /\ RuleState(r)' \in {"Placed", "TimedOut"}

C12_RuleStateMachine ==
    [](C12_StateInvariant) /\ [][C12_StateStep]_vars

\* a run with one rule placed and the next one timed out
C12_Witness ==
    /\ ~dryRun
    /\ pc = "exited"
    /\ Len(cfg.apps) = 2
    /\ RuleState(1) = "Placed"
    /\ RuleState(2) = "TimedOut"

(***************************************************************************)
(* C13: when the wait of a rule returns an address in a non-dry run, the   *)
(* placement commands issued for the rule are, in this order and all for   *)
(* that address: move-to-workspace to the rule's workspace and then, only  *)
(* if the rule has a monitor, focus-window and move-to-monitor to that     *)
(* monitor; without a monitor no focus and no move-to-monitor is issued.   *)
(* Right after a rule's iteration, addr still holds what its wait          *)
(* returned.                                                               *)
(***************************************************************************)
Placement(r) ==
    LET OfRule(e) == e.rule = r /\ e.op \in PlacementOps
    IN  SelectSeq(effects, OfRule)

ExpectedPlacement(r, a) ==
    LET rule == cfg.apps[r]
    IN  << Effect("movetoworkspace", r, <<rule.workspace, a>>) >>
        \o (IF rule.monitor # None
            THEN << Effect("focuswindow", r, <<a>>),
                    Effect("movetomonitor", r, <<rule.monitor[1], a>>) >>
            ELSE <<>>)

C13_PlacementCommandsInOrder ==
    (cfg # NoConfig /\ ~dryRun) =>
        /\ \A r \in 1..Len(cfg.apps) :
              \/ Placement(r) = <<>>
              \/ \E k \in At(r, {"stdout"}) :
                    /\ effects[k].arg[1] = "found"
                    /\ Placement(r) = ExpectedPlacement(r, effects[k].arg[2])
        /\ (pc = "rule" /\ i > 1 /\ addr \notin {None, Some("")}) =>
              Placement(i - 1) = ExpectedPlacement(i - 1, addr[1])

\* a run that placed a rule with a monitor and then one without
C13_Witness ==
    /\ ~dryRun
    /\ pc = "exited"
    /\ Len(cfg.apps) = 2
    /\ cfg.apps[1].monitor = Some("DP-1")
    /\ cfg.apps[2].monitor = None
    /\ Len(Placement(1)) = 3
    /\ Len(Placement(2)) = 1
    /\ addr = Some("0x2")

(***************************************************************************)
(* C14: in a non-dry run the command of each rule is spawned exactly once, *)
(* before the first snapshot fetch of the rule's wait; it is not spawned   *)
(* again while polling or after a timeout; a rule not yet reached has no   *)
(* spawn; a completed run has made as many spawns as there are rules.      *)
(***************************************************************************)
C14_EachRuleSpawnedOnce ==
    (cfg # NoConfig /\ ~dryRun) =>
        /\ \A r \in 1..Len(cfg.apps) :
              /\ Cardinality(At(r, {"spawn"}))
                    = IF r < i \/ (r = i /\ pc # "rule") THEN 1 ELSE 0
              /\ \A k \in At(r, {"spawn"}) :
                    /\ effects[k].arg = cfg.apps[r].cmd
                    /\ \A h \in At(r, {"clients", "sleep", "warn"}) : k < h
        /\ pc = "exited" =>
              Cardinality({k \in 1..Len(effects) : effects[k].op = "spawn"})
                 = Len(cfg.apps)

\* a completed run of two rules, the first of which polled five times and
\* timed out
C14_Witness ==
    /\ ~dryRun
    /\ pc = "exited"
    /\ Len(cfg.apps) = 2
    /\ Cardinality(At(1, {"clients"})) = 5
    /\ Cardinality(At(1, {"warn"})) = 1
    /\ Cardinality({k \in 1..Len(effects) : effects[k].op = "spawn"}) = 2

(***************************************************************************)
(* C15, as claimed: for every timeout T > 0 and poll interval p > 0, also  *)
(* p > T, the wait returns no later than T after it was called.            *)
(***************************************************************************)
C15_ReturnsWithinTimeout ==
    (pc = "result" /\ timeout > 0 /\ cfg.general.poll_interval_ms > 0) =>
        now - t0 <= timeout * MsPerSecond

(***************************************************************************)
(* C15, amended: for every timeout T > 0 and poll interval p > 0 the wait  *)
(* starts no poll at or after T and so, with only the sleeps taking time,  *)
(* is never later than T + p, and returns less than p after T; a wait that *)
(* returns an address returns before T.                                    *)
(***************************************************************************)
C15_ReturnsWithinTimeoutPlusPoll ==
    (pc \in {"poll", "result"} /\ timeout > 0
        /\ cfg.general.poll_interval_ms > 0) =>
        /\ now - t0 < timeout * MsPerSecond + cfg.general.poll_interval_ms
        /\ (pc = "result" /\ ~NoMatchShown(i)) =>
              now - t0 < timeout * MsPerSecond

\* one second polled every 1500 ms: the wait returns after 1500 ms
C15_Witness ==
    /\ pc = "result"
    /\ timeout = 1
    /\ cfg.general.poll_interval_ms = 1500
    /\ addr = None
    /\ now - t0 = 1500

(***************************************************************************)
(* C16: with a poll interval > 0, for every rule list, every timeout and   *)
(* every behaviour of the window source, each wait that is polling         *)
(* eventually returns (an address or NotFound) and the run of orchestrate  *)
(* eventually returns.                                                     *)
(***************************************************************************)
C16_WaitsAndRunReturn ==
    /\ (pc = "poll" /\ cfg.general.poll_interval_ms > 0) ~> (pc = "result")
    /\ (pc = "orchestrate" /\ cfg.general.poll_interval_ms > 0)
          ~> (pc = "exited" /\ exitStatus = Some(ExitOk))

(***************************************************************************)
(* C16, what the loop itself guarantees: with a poll interval > 0 each     *)
(* wait that is polling eventually returns, and the run eventually ends,   *)
(* by the return of orchestrate or by the uncaught error of a malformed    *)
(* pattern.                                                                *)
(***************************************************************************)
C16_WaitsReturnAndRunEnds ==
    /\ (pc = "poll" /\ cfg.general.poll_interval_ms > 0) ~> (pc = "result")
    /\ (pc = "orchestrate" /\ cfg.general.poll_interval_ms > 0)
          ~> (pc \in {"exited", "crashed"})

(***************************************************************************)
(* C17: a rule whose class_regex is malformed makes the wait fail before   *)
(* any snapshot fetch or sleep; the error leaves the wait as an error: it  *)
(* is not turned into NotFound, no timeout warning and no "found" line is  *)
(* written, no placement command is issued for the rule, and the rule's    *)
(* iteration never completes.                                              *)
(***************************************************************************)
C17_MalformedPatternFailsBeforePolling ==
    cfg # NoConfig =>
        \A r \in 1..Len(cfg.apps) :
            Malformed(cfg.apps[r].class_regex) =>
                /\ At(r, {"clients", "sleep", "warn"} \cup PlacementOps) = {}
                /\ \A k \in At(r, {"stdout"}) : effects[k].arg[1] = "launching"
                /\ i <= r
                /\ (i = r /\ pc # "rule") =>
                      (pc = "crashed" /\ exitStatus = Some(ExitUncaught))

\* the second rule is malformed: spawned, then the error
C17_Witness ==
    /\ ~dryRun
    /\ pc = "crashed"
    /\ i = 2
    /\ Malformed(cfg.apps[2].class_regex)
    /\ At(2, {"spawn"}) # {}
    /\ At(1, {"movetoworkspace"}) # {}

(***************************************************************************)
(* C18: a rule gets the timeout warning only if no snapshot fetched during *)
(* its wait showed a window whose class matches its pattern, whatever the  *)
(* address field of such a window holds.                                   *)
(***************************************************************************)
C18_TimeoutWarningOnlyWithoutMatch ==
    cfg # NoConfig =>
        \A r \in 1..Len(cfg.apps) :
            At(r, {"warn"}) # {} => NoMatchShown(r)

(***************************************************************************)
(* C19: no window address receives placement commands from two different   *)
(* rules of one run: a window that an earlier rule has placed is not moved *)
(* again by a later rule.                                                  *)
(***************************************************************************)
C19_NoAddressPlacedByTwoRules ==
    \A a, b \in 1..Len(effects) :
        (/\ effects[a].op = "movetoworkspace"
         /\ effects[b].op = "movetoworkspace"
         /\ effects[a].rule # effects[b].rule) =>
            effects[a].arg[2] # effects[b].arg[2]

====
